---- MODULE Spec2Model ----
(***************************************************************************)
(* Model of string_similarity_helpers.py: character n-gram count vectors,  *)
(* the Jaccard index and the cosine similarity of two count vectors, the   *)
(* lazy candidate matcher select_best_list and the selector                *)
(* select_best_one.                                                        *)
(*                                                                         *)
(* Python floats are IEEE-754 binary64 numbers.  The scores are computed   *)
(* with float division, float multiplication and math.sqrt, each of which  *)
(* rounds its exact result to 53 significant bits (round half to even).    *)
(* The model keeps that arithmetic: a float is a sign, a 53-bit mantissa   *)
(* and a binary exponent, and the mantissa arithmetic is done on natural   *)
(* numbers held as little-endian sequences of 14-bit limbs.                *)
(***************************************************************************)
EXTENDS Integers, Sequences, FiniteSets, TLC

(***************************************************************************)
(* Natural numbers of arbitrary size (little-endian limbs, no leading      *)
(* zero limb; zero is the empty sequence).                                 *)
(***************************************************************************)
LimbBits == 14

Base == 16384

MantBits == 53

GuardBits == 56

RECURSIVE Pow2(_)
Pow2(n) == IF n = 0 THEN 1 ELSE 2 * Pow2(n - 1)

RECURSIVE IntBitLen(_)
IntBitLen(k) == IF k = 0 THEN 0 ELSE 1 + IntBitLen(k \div 2)

RECURSIVE BNorm(_)
BNorm(a) ==
    IF a = <<>> THEN <<>>
    ELSE IF a[Len(a)] = 0 THEN BNorm(SubSeq(a, 1, Len(a) - 1))
    ELSE a

RECURSIVE BFromInt(_)
BFromInt(k) == IF k = 0 THEN <<>> ELSE <<k % Base>> \o BFromInt(k \div Base)

RECURSIVE BAddC(_, _, _)
BAddC(a, b, c) ==
    IF a = <<>> /\ b = <<>> THEN (IF c = 0 THEN <<>> ELSE <<c>>)
    ELSE LET x == IF a = <<>> THEN 0 ELSE Head(a)
             y == IF b = <<>> THEN 0 ELSE Head(b)
             s == x + y + c
         IN  <<s % Base>> \o BAddC(IF a = <<>> THEN <<>> ELSE Tail(a),
                                   IF b = <<>> THEN <<>> ELSE Tail(b),
                                   s \div Base)

BAdd(a, b) == BAddC(a, b, 0)

\* a - b - c for a >= b + c
RECURSIVE BSubC(_, _, _)
BSubC(a, b, c) ==
    IF a = <<>> THEN <<>>
    ELSE LET y == IF b = <<>> THEN 0 ELSE Head(b)
             d == Head(a) - y - c
         IN  <<IF d < 0 THEN d + Base ELSE d>>
             \o BSubC(Tail(a), IF b = <<>> THEN <<>> ELSE Tail(b),
                      IF d < 0 THEN 1 ELSE 0)

BSub(a, b) == BNorm(BSubC(a, b, 0))

\* -1, 0, 1 as a < b, a = b, a > b (both normalised)
RECURSIVE BCmpFrom(_, _, _)
BCmpFrom(a, b, i) ==
    IF i = 0 THEN 0
    ELSE IF a[i] < b[i] THEN -1
    ELSE IF a[i] > b[i] THEN 1
    ELSE BCmpFrom(a, b, i - 1)

BCmp(a, b) ==
    IF Len(a) < Len(b) THEN -1
    ELSE IF Len(a) > Len(b) THEN 1
    ELSE BCmpFrom(a, b, Len(a))

RECURSIVE BMulSmallC(_, _, _)
BMulSmallC(a, k, c) ==
    IF a = <<>> THEN BFromInt(c)
    ELSE LET p == Head(a) * k + c
         IN  <<p % Base>> \o BMulSmallC(Tail(a), k, p \div Base)

BMulSmall(a, k) == BNorm(BMulSmallC(a, k, 0))

BShiftLimbs(a, n) == IF a = <<>> THEN <<>> ELSE [i \in 1..n |-> 0] \o a

RECURSIVE BMul(_, _)
BMul(a, b) ==
    IF b = <<>> \/ a = <<>> THEN <<>>
    ELSE BAdd(BMulSmall(a, Head(b)), BShiftLimbs(BMul(a, Tail(b)), 1))

\* floor(a / k) for 0 < k <= Base, from the most significant limb down
RECURSIVE BDivSmallFrom(_, _, _, _)
BDivSmallFrom(a, k, i, r) ==
    IF i = 0 THEN <<>>
    ELSE LET cur == r * Base + a[i]
         IN  BDivSmallFrom(a, k, i - 1, cur % k) \o <<cur \div k>>

BDivSmall(a, k) == BNorm(BDivSmallFrom(a, k, Len(a), 0))

BShl(a, n) == BShiftLimbs(BMulSmall(a, Pow2(n % LimbBits)), n \div LimbBits)

BShr(a, n) ==
    IF n \div LimbBits >= Len(a) THEN <<>>
    ELSE BDivSmall(SubSeq(a, (n \div LimbBits) + 1, Len(a)), Pow2(n % LimbBits))

BBitLen(a) == IF a = <<>> THEN 0 ELSE LimbBits * (Len(a) - 1) + IntBitLen(a[Len(a)])

BIsOdd(a) == a # <<>> /\ a[1] % 2 = 1

\* one quotient limb, floor(R / D) for R < D * Base: the estimate from the
\* leading limbs is never too small and is corrected downwards
RECURSIVE BDivCorrect(_, _, _)
BDivCorrect(R, D, q) ==
    LET P == BMulSmall(D, q)
    IN  IF BCmp(P, R) > 0 THEN BDivCorrect(R, D, q - 1)
        ELSE [q |-> q, r |-> BSub(R, P)]

BDivDigit(R, D) ==
    IF BCmp(R, D) < 0 THEN [q |-> 0, r |-> R]
    ELSE LET n   == Len(D)
             top == (IF Len(R) > n THEN R[n + 1] * Base ELSE 0) + R[n]
             est == top \div D[n]
         IN  BDivCorrect(R, D, IF est >= Base THEN Base - 1 ELSE est)

\* long division of the limbs i..Len(N) of N by D, most significant limb first
RECURSIVE BDivFrom(_, _, _)
BDivFrom(N, D, i) ==
    IF i > Len(N) THEN [quot |-> <<>>, rem |-> <<>>]
    ELSE LET up == BDivFrom(N, D, i + 1)
             dg == BDivDigit(BNorm(<<N[i]>> \o up.rem), D)
         IN  IF up.rem = <<>> /\ N[i] = 0
             THEN [quot |-> BNorm(<<0>> \o up.quot), rem |-> <<>>]
             ELSE [quot |-> BNorm(<<dg.q>> \o up.quot), rem |-> dg.r]

\* floor(N / D) and N mod D for D > 0; both are scaled first so that the
\* leading limb of the divisor has its top bit set
BDivMod(N, D) ==
    LET f  == Pow2(LimbBits - IntBitLen(D[Len(D)]))
        qr == BDivFrom(BMulSmall(N, f), BMulSmall(D, f), 1)
    IN  [quot |-> qr.quot, rem |-> BDivSmall(qr.rem, f)]

\* floor(sqrt(t)) for an int t < 2^28
RECURSIVE IntSqrtFrom(_, _, _)
IntSqrtFrom(t, r, b) ==
    IF b = 0 THEN r
    ELSE IF (r + b) * (r + b) <= t THEN IntSqrtFrom(t, r + b, b \div 2)
    ELSE IntSqrtFrom(t, r, b \div 2)

IntSqrt(t) == IntSqrtFrom(t, 0, Base \div 2)

BToInt(a) == IF a = <<>> THEN 0 ELSE IF Len(a) = 1 THEN a[1] ELSE a[1] + Base * a[2]

\* Newton's iteration for floor(sqrt(N)), from a start x > sqrt(N)
RECURSIVE BNewton(_, _)
BNewton(N, x) ==
    LET y == BShr(BAdd(x, BDivMod(N, x).quot), 1)
    IN  IF BCmp(y, x) >= 0 THEN x ELSE BNewton(N, y)

\* floor(sqrt(N)) and whether N is a perfect square; the start of the
\* iteration comes from the square root of the leading 28 bits of N
BSqrt(N) ==
    IF N = <<>> THEN [root |-> <<>>, exact |-> TRUE]
    ELSE LET k    == BBitLen(N)
             sh   == IF k <= 2 * LimbBits THEN 0 ELSE 2 * ((k - 2 * LimbBits + 1) \div 2)
             x0   == BShl(BFromInt(IntSqrt(BToInt(BShr(N, sh))) + 1), sh \div 2)
             root == BNewton(N, x0)
         IN  [root |-> root, exact |-> BMul(root, root) = N]

(***************************************************************************)
(* binary64 floats: value = (-1)^neg * m * 2^e with 2^52 <= m < 2^53, or   *)
(* zero (m empty).  The inputs here are small, so no overflow, underflow   *)
(* or subnormal result occurs.                                             *)
(***************************************************************************)
FZero == [neg |-> FALSE, m |-> <<>>, e |-> 0]

\* round N * 2^e (plus a positive fraction below one unit of N when inexact)
\* to the nearest float, ties to even
FRound(N, e, inexact) ==
    IF N = <<>> THEN FZero
    ELSE LET L == BBitLen(N)
         IN  IF L <= MantBits
             THEN [neg |-> FALSE, m |-> BShl(N, MantBits - L), e |-> e - (MantBits - L)]
             ELSE LET sh   == L - MantBits
                      q    == BShr(N, sh)
                      rem  == BSub(N, BShl(q, sh))
                      c    == BCmp(rem, BShl(<<1>>, sh - 1))
                      up   == c > 0 \/ (c = 0 /\ (inexact \/ BIsOdd(q)))
                      q1   == IF up THEN BAdd(q, <<1>>) ELSE q
                  IN  IF BBitLen(q1) > MantBits
                      THEN [neg |-> FALSE, m |-> BShr(q1, 1), e |-> e + sh + 1]
                      ELSE [neg |-> FALSE, m |-> q1, e |-> e + sh]

\* float(k) for an int k >= 0
FFromInt(k) == FRound(BFromInt(k), 0, FALSE)

FNeg(a) == IF a.m = <<>> THEN a ELSE [a EXCEPT !.neg = ~a.neg]

\* a * b
FMul(a, b) ==
    IF a.m = <<>> \/ b.m = <<>> THEN FZero
    ELSE [FRound(BMul(a.m, b.m), a.e + b.e, FALSE) EXCEPT !.neg = (a.neg # b.neg)]

\* a / b for b # 0
FDiv(a, b) ==
    IF a.m = <<>> THEN FZero
    ELSE LET d == BDivMod(BShl(a.m, GuardBits), b.m)
         IN  [FRound(d.quot, a.e - b.e - GuardBits, d.rem # <<>>) EXCEPT !.neg = (a.neg # b.neg)]

\* math.sqrt(a) for a >= 0
FSqrt(a) ==
    IF a.m = <<>> THEN FZero
    ELSE LET odd == a.e % 2 # 0
             m2  == IF odd THEN BShl(a.m, 1) ELSE a.m
             e2  == IF odd THEN a.e - 1 ELSE a.e
             r   == BSqrt(BShl(m2, GuardBits))
         IN  FRound(r.root, (e2 \div 2) - (GuardBits \div 2), ~r.exact)

FMagCmp(a, b) ==
    IF a.m = <<>> THEN (IF b.m = <<>> THEN 0 ELSE -1)
    ELSE IF b.m = <<>> THEN 1
    ELSE IF a.e # b.e THEN (IF a.e < b.e THEN -1 ELSE 1)
    ELSE BCmp(a.m, b.m)

\* -1, 0, 1 as a < b, a == b, a > b
FCmp(a, b) ==
    IF a.neg /\ ~b.neg THEN -1
    ELSE IF ~a.neg /\ b.neg THEN 1
    ELSE IF a.neg THEN FMagCmp(b, a)
    ELSE FMagCmp(a, b)

FGe(a, b) == FCmp(a, b) >= 0

FGt(a, b) == FCmp(a, b) > 0

FLe(a, b) == FCmp(a, b) <= 0

FOne == FFromInt(1)

(***************************************************************************)
(* Strings are sequences of one-character strings; a count vector (a       *)
(* Counter or dict) is a function from its keys to their counts.           *)
(***************************************************************************)
EmptyVec == [g \in {} |-> 0]

\* " " in gram
HasSpace(gram) == \E j \in 1..Len(gram) : gram[j] = " "

\* NgramsFrom without the test for a space
RECURSIVE NgramsFromAll(_, _, _)
NgramsFromAll(text, n, i) ==
    IF i > Len(text) - n THEN <<>>
    ELSE <<SubSeq(text, i + 1, i + n)>> \o NgramsFromAll(text, n, i + 1)

\* NgramsFrom with range(from, len(text)-n): the last window is missed
RECURSIVE NgramsFromShort(_, _, _)
NgramsFromShort(text, n, i) ==
    IF i > Len(text) - n - 1 THEN <<>>
    ELSE LET gram == SubSeq(text, i + 1, i + n)
         IN  (IF HasSpace(gram) THEN <<>> ELSE <<gram>>) \o NgramsFromShort(text, n, i + 1)

\* [text[i:i+n] for i in range(from, len(text)-n+1) if not " " in text[i:i+n]]
RECURSIVE NgramsFrom(_, _, _)
NgramsFrom(text, n, i) ==
    IF i > Len(text) - n THEN <<>>
    ELSE LET gram == SubSeq(text, i + 1, i + n)
         IN  (IF HasSpace(gram) THEN <<>> ELSE <<gram>>) \o NgramsFrom(text, n, i + 1)

\* Counter(items)
RECURSIVE Counter(_)
Counter(items) ==
    IF items = <<>> THEN EmptyVec
    ELSE LET c == Counter(SubSeq(items, 1, Len(items) - 1))
             x == items[Len(items)]
         IN  IF x \in DOMAIN c THEN [c EXCEPT ![x] = @ + 1] ELSE c @@ (x :> 1)

text_to_ngrams_vector(text, n) == Counter(NgramsFrom(text, n, 0))

\* sum([vec1[i] * vec2[i] for i in keys])
RECURSIVE SumProd(_, _, _)
SumProd(vec1, vec2, keys) ==
    IF keys = {} THEN 0
    ELSE LET k == CHOOSE k \in keys : TRUE
         IN  vec1[k] * vec2[k] + SumProd(vec1, vec2, keys \ {k})

jaccard_index(vec1, vec2) ==
    LET vec1_keys    == DOMAIN vec1
        vec2_keys    == DOMAIN vec2
        intersection == vec1_keys \cap vec2_keys
        numerator    == Cardinality(intersection)
        union        == vec1_keys \cup vec2_keys
        denominator  == Cardinality(union)
    IN  IF denominator = 0 THEN FZero
        ELSE FDiv(FFromInt(numerator), FFromInt(denominator))

cosine_similar(vec1, vec2) ==
    LET vec1_keys    == DOMAIN vec1
        vec2_keys    == DOMAIN vec2
        intersection == vec1_keys \cap vec2_keys
        numerator    == SumProd(vec1, vec2, intersection)
        sum1         == SumProd(vec1, vec1, vec1_keys)
        sum2         == SumProd(vec2, vec2, vec2_keys)
        denominator  == FMul(FSqrt(FFromInt(sum1)), FSqrt(FFromInt(sum2)))
    IN  IF denominator = FZero THEN FZero
        ELSE FDiv(FFromInt(numerator), denominator)

\* the default of the parameter n of text_to_ngrams_vector
DefaultN == 2

\* the default score_cutoff, the float literal 0.70
DefaultCutoff == FDiv(FFromInt(7), FFromInt(10))

\* the "no match" value of select_best_one
Sentinel == <<<<>>, FZero>>

\* LoopBody with score > cutoff in place of score >= cutoff
LoopBodyStrict(q, cs, cutoff, i, score, rest) ==
    IF q = cs[i] THEN rest
    ELSE IF FGt(score, cutoff)
         THEN [item |-> << <<cs[i], score>> >>, pos |-> i, scored |-> <<i>>, done |-> FALSE]
         ELSE [rest EXCEPT !.scored = <<i>> \o @]

\* LoopBody skipping a choice when its vector equals the query's
LoopBodyVecSkip(q, cs, cutoff, i, score, rest) ==
    IF text_to_ngrams_vector(q, DefaultN) = text_to_ngrams_vector(cs[i], DefaultN) THEN rest
    ELSE IF FGe(score, cutoff)
         THEN [item |-> << <<cs[i], score>> >>, pos |-> i, scored |-> <<i>>, done |-> FALSE]
         ELSE [rest EXCEPT !.scored = <<i>> \o @]

\* One iteration of the for loop of select_best_list, on cs[i].  score is the
\* cosine similarity of the query and cs[i], looked at only when cs[i] is not
\* the query; rest is the outcome of the iterations after this one, looked at
\* only when this one does not yield.  The outcome: item is the pair yielded
\* (none at the end of choices), pos the number of choices taken from the
\* list, scored the positions vectorized and scored on the way.
LoopBody(q, cs, cutoff, i, score, rest) ==
    IF q = cs[i] THEN rest
    ELSE IF FGe(score, cutoff)
         THEN [item |-> << <<cs[i], score>> >>, pos |-> i, scored |-> <<i>>, done |-> FALSE]
         ELSE [rest EXCEPT !.scored = <<i>> \o @]

\* The body of the generator select_best_list from its for loop on, resumed
\* with i - 1 choices already taken from the list: it runs to the next yield
\* or to the end of choices.
RECURSIVE SelectBestListLoop(_, _, _, _, _)
SelectBestListLoop(q, q_vec, cs, cutoff, i) ==
    IF i > Len(cs) THEN [item |-> <<>>, pos |-> Len(cs), scored |-> <<>>, done |-> TRUE]
    ELSE LoopBody(q, cs, cutoff, i,
                  cosine_similar(q_vec, text_to_ngrams_vector(cs[i], DefaultN)),
                  SelectBestListLoop(q, q_vec, cs, cutoff, i + 1))

\* MaxKeep replacing the held item also on an equal key
MaxKeepLast(held, item) ==
    IF held = <<>> THEN item
    ELSE IF FGe(item[1][2], held[1][2]) THEN item
    ELSE held

\* max(best_list, key=lambda i: i[1]) keeps the item it holds unless the new
\* one has a strictly greater key
MaxKeep(held, item) ==
    IF held = <<>> THEN item
    ELSE IF FGt(item[1][2], held[1][2]) THEN item
    ELSE held

\* SelectBestOneReturn with a handler that does not catch ValueError
SelectBestOneReturnUncaught(held) ==
    IF held = <<>> THEN [value |-> <<>>, error |-> "ValueError"]
    ELSE [value |-> held, error |-> "none"]

\* the end of select_best_one: max raises ValueError on an empty sequence and
\* the handler returns the sentinel
SelectBestOneReturn(held) ==
    IF held = <<>> THEN [value |-> <<Sentinel>>, error |-> "none"]
    ELSE [value |-> held, error |-> "none"]

(***************************************************************************)
(* Bounds and input sets.                                                  *)
(***************************************************************************)
MaxLen == 3

MaxN == 3

MaxCount == 2

MaxChoices == 2

MaxRequests == 4

\* the vectorizer's alphabet: two letters, the space, a tab and a newline
VecAlphabet == {"a", "b", " ", "\t", "\n"}

Economics == <<"e", "c", "o", "n", "o", "m", "i", "c", "s">>

VecTexts == UNION {[1..k -> VecAlphabet] : k \in 0..MaxLen} \cup {Economics}

\* the keys of the count vectors given to the metrics
Keys == {<<"a", "b">>, <<"b", "c">>, <<"c", "d">>}

CountVectors == UNION {[K -> 0..MaxCount] : K \in SUBSET Keys}

\* the strings given to the matcher: "", "ab", "ab ", "abb", "aab", "ba"
Texts == {<<>>, <<"a", "b">>, <<"a", "b", " ">>, <<"a", "b", "b">>,
          <<"a", "a", "b">>, <<"b", "a">>}

ChoiceLists == UNION {[1..k -> Texts] : k \in 0..MaxChoices}

\* -0.5, 0.0 and the default 0.70
Cutoffs == {FNeg(FDiv(FFromInt(1), FFromInt(2))), FZero, DefaultCutoff}

(***************************************************************************)
(* State.                                                                  *)
(*   text, n, ngram_vec        a call of text_to_ngrams_vector             *)
(*   vec1, vec2, jaccard_out, cosine_out   calls of the two metrics        *)
(*   query, choices, score_cutoff          the arguments of the matcher    *)
(*   api       which function the caller called: select_best_list ("list") *)
(*             or select_best_one ("one")                                  *)
(*   gen       the generator: "none", "created" (body not started),        *)
(*             "suspended" (at the yield), "finished"                      *)
(*   pos       how many choices the generator's for loop has taken         *)
(*   query_vec the generator's local query_vec, once computed              *)
(*   held      the item max() holds;  result, error: the outcome of        *)
(*             select_best_one                                             *)
(*   yielded, scored, requests   history: the pairs yielded, the positions *)
(*             of choices vectorized and scored, the next() calls made     *)
(* A value that may be absent is a sequence of length zero or one.         *)
(***************************************************************************)
VARIABLES text, n, ngram_vec,
          vec1, vec2, jaccard_out, cosine_out,
          query, choices, score_cutoff, api, gen, pos, query_vec, held,
          result, error, yielded, scored, requests

vecVars == <<text, n, ngram_vec>>

metricVars == <<vec1, vec2, jaccard_out, cosine_out>>

matchVars == <<query, choices, score_cutoff, api, gen, pos, query_vec, held,
               result, error, yielded, scored, requests>>

vars == <<vecVars, metricVars, matchVars>>

VecIdle == text = <<>> /\ n = DefaultN /\ ngram_vec = <<>>

MetricIdle == vec1 = EmptyVec /\ vec2 = EmptyVec /\ jaccard_out = <<>> /\ cosine_out = <<>>

MatchStart ==
    /\ api = "none" /\ gen = "none" /\ pos = 0 /\ query_vec = <<>> /\ held = <<>>
    /\ result = <<>> /\ error = "none" /\ yielded = <<>> /\ scored = <<>> /\ requests = 0

MatchIdle == query = <<>> /\ choices = <<>> /\ score_cutoff = DefaultCutoff /\ MatchStart

(***************************************************************************)
(* The vectorizer.                                                         *)
(***************************************************************************)
InitVec ==
    /\ text \in VecTexts /\ n \in 1..MaxN /\ ngram_vec = <<>>
    /\ MetricIdle /\ MatchIdle

Vectorize ==
    /\ ngram_vec = <<>>
    /\ ngram_vec' = <<text_to_ngrams_vector(text, n)>>
    /\ UNCHANGED <<text, n, metricVars, matchVars>>

NextVec == Vectorize

SpecVec == InitVec /\ [][NextVec]_vars

(***************************************************************************)
(* The metrics.                                                            *)
(***************************************************************************)
InitMetric ==
    /\ vec1 \in CountVectors /\ vec2 \in CountVectors
    /\ jaccard_out = <<>> /\ cosine_out = <<>>
    /\ VecIdle /\ MatchIdle

Jaccard ==
    /\ jaccard_out = <<>>
    /\ jaccard_out' = <<jaccard_index(vec1, vec2)>>
    /\ UNCHANGED <<vec1, vec2, cosine_out, vecVars, matchVars>>

Cosine ==
    /\ cosine_out = <<>>
    /\ cosine_out' = <<cosine_similar(vec1, vec2)>>
    /\ UNCHANGED <<vec1, vec2, jaccard_out, vecVars, matchVars>>

NextMetric == Jaccard \/ Cosine

SpecMetric == InitMetric /\ [][NextMetric]_vars

(***************************************************************************)
(* The matcher and the selector.                                           *)
(***************************************************************************)
Init ==
    /\ query \in Texts /\ choices \in ChoiceLists /\ score_cutoff \in Cutoffs
    /\ MatchStart
    /\ VecIdle /\ MetricIdle

\* the generator after a run of its body: suspended at a yield or finished
GenResult(q_vec, run) ==
    [item |-> run.item, gen |-> IF run.done THEN "finished" ELSE "suspended",
     pos |-> run.pos, query_vec |-> <<q_vec>>, scored |-> run.scored]

\* the body runs with the local query_vec from the choice after pos
GenRun(q_vec, from) ==
    GenResult(q_vec, SelectBestListLoop(query, q_vec, choices, score_cutoff, from))

\* GenNext for a sequence that starts over once it is exhausted
GenNextRestart ==
    GenRun(text_to_ngrams_vector(query, DefaultN), IF gen = "finished" THEN 1 ELSE pos + 1)

\* one next() on the generator: a finished generator raises StopIteration at
\* once; otherwise the body runs (from its first line, which computes
\* query_vec, on the first call) to the next yield or to its end
GenNext ==
    IF gen = "finished"
    THEN [item |-> <<>>, gen |-> "finished", pos |-> pos, query_vec |-> query_vec,
          scored |-> <<>>]
    ELSE GenRun(IF gen = "created" THEN text_to_ngrams_vector(query, DefaultN)
                ELSE query_vec[1],
                pos + 1)

\* the generator and the history after the next() that gave r
Resume(r) ==
    /\ gen' = r.gen /\ pos' = r.pos /\ query_vec' = r.query_vec
    /\ yielded' = yielded \o r.item
    /\ scored' = scored \o r.scored
    /\ requests' = requests + 1

\* the caller calls select_best_list: a generator object, nothing has run
ListCall ==
    /\ api = "none"
    /\ api' = "list" /\ gen' = "created"
    /\ UNCHANGED <<query, choices, score_cutoff, pos, query_vec, held, result, error,
                   yielded, scored, requests, vecVars, metricVars>>

\* the caller asks the generator for its next item
ListNext ==
    /\ api = "list" /\ requests < MaxRequests
    /\ Resume(GenNext)
    /\ UNCHANGED <<query, choices, score_cutoff, api, held, result, error,
                   vecVars, metricVars>>

\* the caller calls select_best_one, which calls select_best_list
OneCall ==
    /\ api = "none"
    /\ api' = "one" /\ gen' = "created"
    /\ UNCHANGED <<query, choices, score_cutoff, pos, query_vec, held, result, error,
                   yielded, scored, requests, vecVars, metricVars>>

\* select_best_one after max() returned or raised
OneReturn(ret) == result' = ret.value /\ error' = ret.error

\* max() asks for the next item r.item: it keeps the better of the held and
\* the new item, or, at StopIteration, ends and select_best_one returns
MaxStep(r) ==
    /\ Resume(r)
    /\ IF r.item # <<>>
       THEN held' = MaxKeep(held, r.item) /\ UNCHANGED <<result, error>>
       ELSE OneReturn(SelectBestOneReturn(held)) /\ UNCHANGED held

OneMax ==
    /\ api = "one" /\ result = <<>> /\ error = "none"
    /\ MaxStep(GenNext)
    /\ UNCHANGED <<query, choices, score_cutoff, api, vecVars, metricVars>>

Next == ListCall \/ ListNext \/ OneCall \/ OneMax

Spec == Init /\ [][Next]_vars

(***************************************************************************)
(* Properties.                                                             *)
(***************************************************************************)
Range(seq) == {seq[j] : j \in 1..Len(seq)}

\* the score of the i-th choice: the cosine similarity of the bigram vectors
Score(i) ==
    cosine_similar(text_to_ngrams_vector(query, 2), text_to_ngrams_vector(choices[i], 2))

\* the i-th choice is not the query and its score reaches the cutoff
Qualifies(i) == choices[i] # query /\ FGe(Score(i), score_cutoff)

\* the pairs of the qualifying positions i..len(choices), in the order of choices
RECURSIVE QualifyingFrom(_)
QualifyingFrom(i) ==
    IF i > Len(choices) THEN <<>>
    ELSE (IF Qualifies(i) THEN << <<choices[i], Score(i)>> >> ELSE <<>>)
         \o QualifyingFrom(i + 1)

\* the pairs of the qualifying positions, in the order of choices
ExpectedYields == QualifyingFrom(1)

\* select_best_one has returned (or raised)
OneDone == api = "one" /\ gen = "finished"

\* C1: when select_best_list yields at least one pair, select_best_one
\* returns a yielded pair whose score is >= score_cutoff and >= every yielded
\* score, and among the pairs with the maximum score it returns the first.
SelectedIsFirstMaximum ==
    (OneDone /\ yielded # <<>>) =>
        /\ error = "none" /\ result # <<>>
        /\ \E j \in 1..Len(yielded) :
              /\ result[1] = yielded[j]
              /\ \A k \in 1..Len(yielded) : FGe(yielded[j][2], yielded[k][2])
              /\ \A k \in 1..(j - 1) : yielded[k][2] # yielded[j][2]
        /\ FGe(result[1][2], score_cutoff)

SelectedIsFirstMaximumWitness ==
    /\ OneDone /\ Len(yielded) = 2
    /\ yielded[1][2] = yielded[2][2] /\ yielded[1][1] # yielded[2][1]
    /\ FGt(yielded[1][2], FZero)
    /\ result = <<yielded[1]>>

\* C2: when select_best_list yields no pair, select_best_one returns the
\* sentinel ("", 0.0) and raises no error.
NoYieldGivesSentinel ==
    (OneDone /\ yielded = <<>>) => (result = <<Sentinel>> /\ error = "none")

NoYieldGivesSentinelWitness ==
    /\ OneDone /\ yielded = <<>> /\ result = <<Sentinel>>
    /\ Len(choices) = 2 /\ choices[1] # query /\ choices[2] = query
    /\ FGt(Score(1), FZero)

\* C3: fully consumed, select_best_list has yielded exactly the pairs
\* (choice, cosine similarity of the bigram vectors) of the positions whose
\* choice differs from the query and whose score is >= score_cutoff, one per
\* position, in the order of choices.
YieldsAreTheQualifyingChoices ==
    gen = "finished" => yielded = ExpectedYields

YieldsAreTheQualifyingChoicesWitness ==
    /\ gen = "finished" /\ Len(choices) = 2 /\ Len(yielded) = 1
    /\ choices[1] # query /\ yielded[1][1] = choices[2]

\* C4: no yielded pair has the query as its candidate, select_best_one(q, [q], c)
\* returns the sentinel, and every choice that differs from the query as a
\* string is scored, also when its bigram vector equals the query's.
SelfMatchExcludedByStringEquality ==
    /\ \A j \in 1..Len(yielded) : yielded[j][1] # query
    /\ (OneDone /\ choices = <<query>>) => result = <<Sentinel>>
    /\ gen = "finished" =>
          \A i \in 1..Len(choices) : (choices[i] # query) <=> (i \in Range(scored))

SelfMatchExcludedByStringEqualityWitness ==
    \E j \in 1..Len(yielded) :
        /\ yielded[j][1] # query
        /\ text_to_ngrams_vector(yielded[j][1], 2) = text_to_ngrams_vector(query, 2)
        /\ FLe(score_cutoff, FZero)

\* the first qualifying position after p, or 0
NextYieldPos(p) ==
    IF \E i \in (p + 1)..Len(choices) : Qualifies(i)
    THEN CHOOSE i \in (p + 1)..Len(choices) :
             Qualifies(i) /\ \A k \in (p + 1)..(i - 1) : ~Qualifies(k)
    ELSE 0

\* the positions a..b whose choice is not the query, in increasing order
RECURSIVE NonSelfPositions(_, _)
NonSelfPositions(a, b) ==
    IF a > b THEN <<>>
    ELSE (IF choices[a] # query THEN <<a>> ELSE <<>>) \o NonSelfPositions(a + 1, b)

LazyStep ==
    /\ gen \in {"none", "created"} => (pos = 0 /\ scored = <<>> /\ yielded = <<>>)
    /\ choices' = choices
    /\ requests' = requests => (pos' = pos /\ scored' = scored /\ yielded' = yielded)
    /\ (requests' = requests + 1 /\ gen # "finished") =>
          LET t == NextYieldPos(pos)
          IN  /\ IF t = 0
                 THEN pos' = Len(choices) /\ gen' = "finished" /\ yielded' = yielded
                 ELSE /\ pos' = t /\ gen' = "suspended"
                      /\ yielded' = Append(yielded, <<choices[t], Score(t)>>)
              /\ scored' = scored \o NonSelfPositions(pos + 1, pos')
    /\ gen = "finished" =>
          (gen' = "finished" /\ pos' = pos /\ scored' = scored /\ yielded' = yielded)
    /\ pos' <= Len(choices) /\ Len(scored') <= Len(choices)

\* C9: select_best_list is lazy and single-pass: nothing is examined before
\* the first request; a request examines the choices in order up to and
\* including the next one that is yielded; an exhausted generator stays
\* exhausted and examines nothing; choices is never modified.
LazySinglePass == [][LazyStep]_vars

LazySinglePassWitness ==
    /\ api = "list" /\ gen = "suspended" /\ pos < Len(choices) /\ Len(yielded) = 1
    /\ Len(scored) = pos

\* C10 as stated: select_best_one returns ("", 0.0) exactly when
\* select_best_list yields no pair.
SentinelIffNoYield ==
    OneDone => (result = <<Sentinel>> <=> yielded = <<>>)

\* C10 as amended: select_best_one returns ("", 0.0) exactly when
\* select_best_list yields no pair, or every yielded pair has the score 0.0
\* and the first yielded pair has the empty string as its candidate.
SentinelIffNoYieldOrEmptyChoice ==
    OneDone =>
        (result = <<Sentinel>> <=>
            \/ yielded = <<>>
            \/ /\ yielded[1][1] = <<>>
               /\ \A k \in 1..Len(yielded) : yielded[k][2] = FZero)

SentinelIffNoYieldOrEmptyChoiceWitness ==
    /\ OneDone /\ result = <<Sentinel>> /\ Len(yielded) = 2
    /\ yielded[1][1] = <<>> /\ yielded[2][1] # <<>>

(***************************************************************************)
(* Properties of the vectorizer.                                           *)
(***************************************************************************)
\* the windows text[i:i+n] for i in 0..len(text)-n
Windows == {SubSeq(text, i + 1, i + n) : i \in 0..(Len(text) - n)}

\* the number of start indices i in 0..len(text)-n with text[i:i+n] == g
Occurrences(g) ==
    Cardinality({i \in 0..(Len(text) - n) : SubSeq(text, i + 1, i + n) = g})

Whitespace == {" ", "\t", "\n"}

\* C5 as stated: every key is a contiguous substring of text of length n and
\* contains no whitespace character (space, tab, newline).
KeysHaveNoWhitespace ==
    ngram_vec # <<>> =>
        \A g \in DOMAIN ngram_vec[1] :
            /\ Len(g) = n /\ g \in Windows
            /\ \A j \in 1..Len(g) : g[j] \notin Whitespace

\* C5 as amended: every key is a contiguous substring of text of length n
\* and contains no space character; a tab or a newline can be in a key.
KeysHaveNoSpace ==
    ngram_vec # <<>> =>
        \A g \in DOMAIN ngram_vec[1] :
            /\ Len(g) = n /\ g \in Windows
            /\ \A j \in 1..Len(g) : g[j] # " "

KeysHaveNoSpaceWitness ==
    /\ ngram_vec # <<>>
    /\ \E g \in Windows : HasSpace(g)
    /\ \E g \in DOMAIN ngram_vec[1] : \E j \in 1..Len(g) : g[j] = "\t"

EconomicsBigrams ==
    [g \in {<<"e", "c">>, <<"c", "o">>, <<"o", "n">>, <<"n", "o">>, <<"o", "m">>,
            <<"m", "i">>, <<"i", "c">>, <<"c", "s">>} |-> 1]

\* C8: the result maps each space-free window g of length n to the number of
\* start indices at which it occurs, has no other key and no zero count; it
\* is empty when len(text) < n, and "economics" gives its eight bigrams once.
CountsAreWindowCounts ==
    ngram_vec # <<>> =>
        /\ DOMAIN ngram_vec[1] = {g \in Windows : ~HasSpace(g)}
        /\ \A g \in DOMAIN ngram_vec[1] :
              ngram_vec[1][g] = Occurrences(g) /\ ngram_vec[1][g] > 0
        /\ Len(text) < n => ngram_vec[1] = EmptyVec
        /\ (text = Economics /\ n = 2) => ngram_vec[1] = EconomicsBigrams

CountsAreWindowCountsWitness ==
    /\ ngram_vec # <<>>
    /\ \E g \in DOMAIN ngram_vec[1] : ngram_vec[1][g] >= 2
    /\ \E g \in Windows : HasSpace(g)

(***************************************************************************)
(* Properties of the metrics.                                              *)
(***************************************************************************)
InUnitInterval(x) == FGe(x, FZero) /\ FLe(x, FOne)

\* C6: for count vectors with non-negative counts, jaccard_index and
\* cosine_similar both lie in the closed interval [0.0, 1.0].
ScoresInUnitInterval ==
    /\ jaccard_out # <<>> => InUnitInterval(jaccard_out[1])
    /\ cosine_out # <<>> => InUnitInterval(cosine_out[1])

\* C7: for a count vector v with positive counts, jaccard_index(v, v) and
\* cosine_similar(v, v) are 1.0 when v is not empty and 0.0 when it is.
SelfSimilarityIsOne ==
    (vec1 = vec2 /\ \A k \in DOMAIN vec1 : vec1[k] > 0) =>
        /\ jaccard_out # <<>> =>
              jaccard_out[1] = IF DOMAIN vec1 = {} THEN FZero ELSE FOne
        /\ cosine_out # <<>> =>
              cosine_out[1] = IF DOMAIN vec1 = {} THEN FZero ELSE FOne

====
